---------------------------- MODULE Spec2Model ----------------------------
(***************************************************************************)
(* Model of the Quick Alias plugin (src/main.js): the debounce scheduler,  *)
(* the processFile pipeline, extractAliases and the frontmatter merge of   *)
(* updateFrontmatter.                                                      *)
(*                                                                         *)
(* Strings are sequences of UTF-16 code units, so that toLowerCase, trim   *)
(* and the default Array.prototype.sort order are computed, not assumed.   *)
(*                                                                         *)
(* Spec is the whole plugin in one small vault: events, the clock, the     *)
(* debounce timer and the processFile calls.  PipelineSpec is the          *)
(* processFile calls alone over every note text and stored alias list.     *)
(* MergeSpec and ExtractSpec apply the merge and extractAliases to         *)
(* arbitrary arguments.  SettingsSpec is the settings tab alone, over the  *)
(* texts typed into it and the values found in the persisted data;         *)
(* PatternSpec is the pattern field together with the processFile calls.   *)
(* FairSpec is the plugin with a host that keeps its promises: time        *)
(* passes while a timer is pending, a due timer runs, and every vault.read *)
(* and processFrontMatter call settles.                                    *)
(*                                                                         *)
(* Time moves in ticks of 500 ms and a timer runs when it falls due.  The  *)
(* host's processFrontMatter is one atomic read-modify-write step.         *)
(***************************************************************************)
EXTENDS Integers, Sequences, FiniteSets, TLC

(***************************************************************************)
(* Strings                                                                 *)
(***************************************************************************)
\* the white-space code unit removed by trim (U+0020)
SP == 32

\* the strings the model draws from, as code-unit sequences
sEmpty == <<>>
sBlank == <<32>>
sUpA == <<65>>
sUpB == <<66>>
sLowA == <<97>>
sLowB == <<98>>
sPadLowB == <<32, 98, 32>>
sUpP == <<80>>
sPadUpP == <<32, 80>>
sLowP == <<112>>
sUpQ == <<81>>
sUpX == <<88>>
sImg == <<105>>

\* "2024-01-02", the basename of E
sSecondDay == <<50, 48, 50, 52, 45, 48, 49, 45, 48, 50>>

\* texts typed into the "Debounce timeout (ms)" field:
\* "500", "1500", "6000", "abc", "1500abc", "5000.5", " 2000"
s500 == <<53, 48, 48>>
s1500 == <<49, 53, 48, 48>>
s6000 == <<54, 48, 48, 48>>
sAbc == <<97, 98, 99>>
s1500abc == <<49, 53, 48, 48, 97, 98, 99>>
s5000p5 == <<53, 48, 48, 48, 46, 53>>
sPad2000 == <<32, 50, 48, 48, 48>>

\* "constructor": a property every JS object inherits from Object.prototype
sConstructor == <<99, 111, 110, 115, 116, 114, 117, 99, 116, 111, 114>>

\* String.prototype.toLowerCase on one code unit (ASCII range of the model)
LowerUnit(c) == IF c >= 65 /\ c <= 90 THEN c + 32 ELSE c

\* String.prototype.toLowerCase
ToLowerCase(s) == [i \in 1..Len(s) |-> LowerUnit(s[i])]

\* String.prototype.trim: drop leading and trailing white space
RECURSIVE TrimStart(_)
TrimStart(s) ==
    IF s # <<>> /\ Head(s) = SP THEN TrimStart(Tail(s)) ELSE s

RECURSIVE TrimEnd(_)
TrimEnd(s) ==
    IF s # <<>> /\ s[Len(s)] = SP THEN TrimEnd(SubSeq(s, 1, Len(s) - 1)) ELSE s

Trim(s) == TrimEnd(TrimStart(s))

\* the order of Array.prototype.sort() without comparator: strings compared
\* code unit by code unit, a proper prefix first
StrLess(a, b) ==
    \/ /\ Len(a) < Len(b)
       /\ \A i \in 1..Len(a) : a[i] = b[i]
    \/ \E i \in 1..(IF Len(a) < Len(b) THEN Len(a) ELSE Len(b)) :
          /\ a[i] < b[i]
          /\ \A j \in 1..(i - 1) : a[j] = b[j]

Range(q) == {q[i] : i \in 1..Len(q)}

\* parseInt(value, 10): leading white space is dropped, then an optional
\* sign, then the longest run of decimal digits is read and whatever follows
\* it is ignored; NaN when there is no digit
IsDigit(c) == c >= 48 /\ c <= 57

RECURSIVE DigitPrefix(_)
DigitPrefix(s) ==
    IF s # <<>> /\ IsDigit(Head(s))
    THEN <<Head(s)>> \o DigitPrefix(Tail(s))
    ELSE <<>>

RECURSIVE DecimalValue(_)
DecimalValue(z) ==
    IF z = <<>> THEN 0
    ELSE 10 * DecimalValue(SubSeq(z, 1, Len(z) - 1)) + (z[Len(z)] - 48)

ParseInt(value) ==
    LET S == TrimStart(value)
        signed == S # <<>> /\ Head(S) \in {43, 45}
        sign == IF S # <<>> /\ Head(S) = 45 THEN -1 ELSE 1
        Z == DigitPrefix(IF signed THEN Tail(S) ELSE S)
    IN  IF Z = <<>> THEN [isNaN |-> TRUE, number |-> 0]
        ELSE [isNaN |-> FALSE, number |-> sign * DecimalValue(Z)]

\* [...new Set(xs)].sort(): the distinct strings of S in ascending order
RECURSIVE SortedArray(_)
SortedArray(S) ==
    IF S = {} THEN <<>>
    ELSE LET m == CHOOSE x \in S : \A y \in S : x = y \/ StrLess(x, y)
         IN  <<m>> \o SortedArray(S \ {m})

(***************************************************************************)
(* updateFrontmatter: the callback handed to processFrontMatter            *)
(***************************************************************************)
\* (frontmatter['aliases'] || []).map(alias => alias.toLowerCase());
\* an absent aliases key and an empty list are both the empty sequence
ExistingAliases(existing) == [i \in 1..Len(existing) |-> ToLowerCase(existing[i])]

\* a merge that overwrites the list with the incoming aliases
MergeDroppingExisting(existing, aliases) == SortedArray(Range(aliases))

\* a merge that keeps the existing entries in their original case
MergeKeepingCase(existing, aliases) ==
    SortedArray(Range(existing) \cup Range(aliases))

\* frontmatter['aliases'] = [...new Set([...existingAliases, ...aliases])].sort()
MergeAliases(existing, aliases) ==
    SortedArray(Range(ExistingAliases(existing)) \cup Range(aliases))

(***************************************************************************)
(* extractAliases                                                          *)
(***************************************************************************)
\* One match of /\[\[(.*?)(?:\|(.*?))?\]\]/g is a record
\* [target, piped, alias]: match[1], whether the optional group took part,
\* and match[2] (meaningful only when piped).
Occurrence(t, p, a) == [target |-> t, piped |-> p, alias |-> a]

\* names that `aliasMap = {}` already answers through its prototype
ObjectPrototypeKeys == {sConstructor}

\* position of the own key k in the insertion-ordered entries, 0 if absent
KeyIndex(entries, k) ==
    IF \E i \in 1..Len(entries) : entries[i].target = k
    THEN CHOOSE i \in 1..Len(entries) : entries[i].target = k
    ELSE 0

\* a guard that asks for a target only
QualifiesUnaliased(occ) == Trim(occ.target) # <<>>

\* the value of the while loop's guard `alias && targetNote`
Qualifies(occ) ==
    /\ occ.piped
    /\ Trim(occ.alias) # <<>>
    /\ Trim(occ.target) # <<>>

\* the while loop: [threw, entries], entries in insertion order, each
\* [target, aliases] with aliases the Set built so far
RECURSIVE ScanMatches(_, _)
ScanMatches(content, entries) ==
    IF content = <<>> THEN [threw |-> FALSE, entries |-> entries]
    ELSE LET occ == Head(content)
             targetNote == Trim(occ.target)
             alias == Trim(occ.alias)
             at == KeyIndex(entries, targetNote)
         IN  IF ~Qualifies(occ) THEN ScanMatches(Tail(content), entries)
             ELSE IF at # 0
               THEN ScanMatches(Tail(content),
                      [entries EXCEPT ![at].aliases = @ \cup {ToLowerCase(alias)}])
             ELSE IF targetNote \in ObjectPrototypeKeys
               \* aliasMap[targetNote] is the inherited value: truthy, no Set is
               \* created, and .add is not a function
               THEN [threw |-> TRUE, entries |-> <<>>]
             ELSE ScanMatches(Tail(content),
                      Append(entries, [target |-> targetNote,
                                       aliases |-> {ToLowerCase(alias)}]))

\* extractAliases(content): [threw, map], map the Object.entries of the
\* returned object, each value Array.from(set).sort()
ExtractAliases(content) ==
    LET scan == ScanMatches(content, <<>>)
    IN  [threw |-> scan.threw,
         map   |-> [i \in 1..Len(scan.entries) |->
                      [target  |-> scan.entries[i].target,
                       aliases |-> SortedArray(scan.entries[i].aliases)]]]

(***************************************************************************)
(* The vault                                                               *)
(***************************************************************************)
NoFile == "none"

\* D, E: daily notes; P, Q: notes they link to; I: an attachment
Files == {"D", "E", "P", "Q", "I"}

\* the files the user opens, those the user focuses, and those that get
\* modified
OpenedFiles == {"D", "P", "I"}
FocusFiles == {"D", "E"}
ModifiedFiles == {"D", "E"}

\* file.extension
Extension(f) == IF f = "I" THEN "png" ELSE "md"

\* a settings tab that takes every text for a pattern
AnyTextCompiles(value) == TRUE

\* The patterns of the model, by name: "date" is DEFAULT_SETTINGS.fileRegex,
\* "first" is 2024\-01\-01 (the basename of D alone), "" is the emptied
\* field and "[" is a pattern that does not compile.
\* new RegExp(value) returns, for value alone and wrapped in ^ and $ alike
IsValidRegex(value) == value \in {"date", "first", ""}

\* file.basename.match(new RegExp(`^${fileRegex}$`)): the basenames of D
\* and E are 2024-01-01 and 2024-01-02, no other name has the form of a date
MatchesFileRegex(f, fileRegex) ==
    \/ fileRegex = "date" /\ f \in {"D", "E"}
    \/ fileRegex = "first" /\ f = "D"

\* app.metadataCache.getFirstLinkpathDest(targetNote, file.path); the host
\* finds P under either case of its name
GetFirstLinkpathDest(targetNote) ==
    IF targetNote \in {sUpP, sLowP} THEN "P"
    ELSE IF targetNote = sUpQ THEN "Q"
    ELSE IF targetNote = sImg THEN "I"
    ELSE IF targetNote = sSecondDay THEN "E"
    ELSE NoFile

\* `targetFile && targetFile.extension === 'md'`
IsMarkdownTarget(targetNote) ==
    /\ GetFirstLinkpathDest(targetNote) # NoFile
    /\ Extension(GetFirstLinkpathDest(targetNote)) = "md"

(***************************************************************************)
(* Bounds and input pools                                                  *)
(***************************************************************************)
\* events delivered (file-open of a markdown file, modify, a change in the
\* settings tab) and clock ticks of 500 ms
MaxEvents == 3
MaxTicks == 3

\* processFile calls in the specification of the pipeline alone
MaxCalls == 2

\* DEFAULT_SETTINGS.debounceTimeout and the range loadSettings clamps to
DefaultDebounceTimeout == 1000
MinDebounceTimeout == 1000
MaxDebounceTimeout == 5000

\* debounceTimeout values found in the persisted data (0: none stored)
PersistedDebounce == {0, 1500}

\* the value typed into the "Debounce timeout (ms)" field while notes are
\* edited
TypedDebounce == {s1500}

\* whether saveData resolves
SaveOutcomes == BOOLEAN

\* what the settings tab is given when it is exercised alone: texts for the
\* debounce field, texts for the pattern field, debounceTimeout values found
\* in the persisted data
TypedTexts == {s500, s1500, s6000, sAbc, s1500abc, s5000p5, sPad2000}
TypedPatterns == {"first", "", "["}
PersistedValues == {-1500, 0, 999, 1000, 1500, 5000, 5001}

\* texts of the daily notes, as the matches of the link regex
SourceContents ==
    { <<Occurrence(sUpP, TRUE, sUpA), Occurrence(sUpQ, TRUE, sLowB)>>,
      <<Occurrence(sPadUpP, TRUE, sPadLowB), Occurrence(sUpX, TRUE, sLowA),
        Occurrence(sUpQ, FALSE, sEmpty)>>,
      <<Occurrence(sImg, TRUE, sLowA), Occurrence(sUpP, TRUE, sUpB),
        Occurrence(sUpP, TRUE, sLowB)>>,
      <<Occurrence(sUpP, TRUE, sLowA), Occurrence(sLowP, TRUE, sLowB)>> }

\* texts of the second daily note; the last one links to the note itself
SecondContents ==
    { <<Occurrence(sPadUpP, TRUE, sPadLowB), Occurrence(sUpX, TRUE, sLowA),
        Occurrence(sUpQ, FALSE, sEmpty)>>,
      <<Occurrence(sImg, TRUE, sLowA), Occurrence(sUpP, TRUE, sUpB),
        Occurrence(sUpP, TRUE, sLowB)>>,
      <<Occurrence(sSecondDay, TRUE, sUpA), Occurrence(sUpP, FALSE, sEmpty)>> }

\* alias lists found in the linked notes before the plugin touches them
StoredAliases == { <<>>, <<sUpB, sLowA, sUpA>> }

(***************************************************************************)
(* State                                                                   *)
(***************************************************************************)
VARIABLES
    settings,     \* this.settings
    wait,         \* the `wait` the debounce closure was built with
    timeout,      \* the closure's `timeout`: handle of the last setTimeout, 0 if none
    timers,       \* the host's armed timers: [id, file, due]
    activeFile,   \* app.workspace.getActiveFile()
    content,      \* vault.read(file) of the daily notes
    frontmatter,  \* frontmatter['aliases'] of every file
    procs,        \* the processFile calls made so far, running or returned
    now,          \* the clock, in ms
    modifyLog,    \* history: the modify events delivered, [file, at, debounceMs]
    firedLog,     \* history: the timer callbacks run, [id, file, active, at]
    frontmatter0, \* history: frontmatter at start
    data,         \* what loadData returns: the settings saveData stored last
    inputs,       \* history: the runs of the settings tab's onChange handlers
    mergeCall,    \* the merge under test, for the specification of the merge
    extractCall   \* the extraction under test, for that of extractAliases

tabVars == <<data, inputs>>
progVars == <<settings, wait, timeout, timers, activeFile, content, frontmatter,
              procs, now, modifyLog, firedLog, frontmatter0, tabVars>>
vars == <<progVars, mergeCall, extractCall>>

(***************************************************************************)
(* loadSettings / onload                                                   *)
(***************************************************************************)
Max(a, b) == IF a > b THEN a ELSE b
Min(a, b) == IF a < b THEN a ELSE b

DefaultSettings ==
    [fileRegex        |-> "date",
     showUpdateNotice |-> TRUE,
     debounceTimeout  |-> DefaultDebounceTimeout]

\* the persisted data with the keys it lacks taken from DEFAULT_SETTINGS,
\* as Object.assign({}, DEFAULT_SETTINGS, data || {}) fills them in
StoredData(showUpdateNotice, debounceTimeout) ==
    [DefaultSettings EXCEPT !.showUpdateNotice = showUpdateNotice,
                            !.debounceTimeout = debounceTimeout]

\* loadSettings: the merged object with debounceTimeout clamped;
\* `debounceTimeout || DEFAULT_SETTINGS.debounceTimeout` replaces a stored 0
LoadSettings(stored) ==
    [stored EXCEPT !.debounceTimeout =
        Max(MinDebounceTimeout,
            Min(MaxDebounceTimeout,
                IF @ = 0 THEN DefaultDebounceTimeout ELSE @))]

IdleMergeCall == [stage |-> 0, existing |-> <<>>, incoming |-> <<>>,
                  once |-> <<>>, twice |-> <<>>]
IdleExtractCall == [stage |-> 0, content |-> <<>>,
                    result |-> [threw |-> FALSE, map |-> <<>>]]

\* the state when onload has returned: settings loaded, both handlers
\* registered, the debounce closure built with the loaded debounceTimeout
Loaded(stored) ==
    /\ settings = LoadSettings(stored)
    /\ wait = settings.debounceTimeout
    /\ timeout = 0
    /\ timers = {}
    /\ procs = <<>>
    /\ now = 0
    /\ modifyLog = <<>>
    /\ firedLog = {}
    /\ frontmatter0 = frontmatter
    /\ data = stored
    /\ inputs = <<>>

\* the plugin loaded in a vault where D links to P and to a missing note,
\* E has a link without alias, and P already has an alias
Init ==
    /\ activeFile = "D"
    /\ content = [f \in {"D", "E"} |->
                    IF f = "D"
                    THEN <<Occurrence(sUpP, TRUE, sUpA), Occurrence(sUpX, TRUE, sLowA)>>
                    ELSE <<Occurrence(sUpQ, FALSE, sEmpty)>>]
    /\ frontmatter = [f \in Files |-> IF f = "P" THEN <<sUpB>> ELSE <<>>]
    /\ \E stored \in PersistedDebounce : Loaded(StoredData(TRUE, stored))
    /\ mergeCall = IdleMergeCall
    /\ extractCall = IdleExtractCall

\* the plugin loaded in a vault with any of the note texts and alias lists
PipelineInit ==
    /\ activeFile = NoFile
    /\ \E first \in SourceContents, second \in SecondContents :
          content = [f \in {"D", "E"} |-> IF f = "D" THEN first ELSE second]
    /\ \E stored \in StoredAliases :
          frontmatter = [f \in Files |-> IF f = "P" THEN stored ELSE <<>>]
    /\ \E showUpdateNotice \in BOOLEAN :
          Loaded(StoredData(showUpdateNotice, DefaultDebounceTimeout))
    /\ mergeCall = IdleMergeCall
    /\ extractCall = IdleExtractCall

(***************************************************************************)
(* processFile                                                             *)
(***************************************************************************)
\* A processFile call is a record
\*   file, trigger ("open" | "timer"), and for "timer" the timer's id and
\*   the time its callback ran (timerId, firedAt; both 0 for "open"),
\*   pc: "read" (awaiting vault.read), "update" (awaiting processFrontMatter
\*       for Head(todo)), "done" (returned),
\*   map: the extracted aliasMap, todo: its entries not yet handled,
\*   updatedCount, attempted: files handed to updateFrontmatter,
\*   wrote: the [file, aliases] updates that went through,
\*   rejected: the files whose processFrontMatter call rejected,
\*   failed: whether the call ended in the catch block,
\*   notice: the Notices it raised,
\*   fileRegex: the pattern its filter was compiled from,
\*   inputsBefore: the number of settings changes made before the call,
\*   read: whether it called vault.read, unreadable: whether that call rejected
NewProc(file, trigger, id, pc) ==
    [file |-> file, trigger |-> trigger, timerId |-> id,
     firedAt |-> IF trigger = "timer" THEN now ELSE 0,
     pc |-> pc, map |-> <<>>, todo |-> <<>>, updatedCount |-> 0,
     attempted |-> {}, wrote |-> {}, rejected |-> {}, failed |-> FALSE, notice |-> <<>>,
     fileRegex |-> settings.fileRegex, inputsBefore |-> Len(inputs),
     read |-> pc = "read", unreadable |-> FALSE]

\* a catch block that swallows the error
CatchWithoutNotice(p) == [p EXCEPT !.pc = "done", !.failed = TRUE]

\* the catch block of processFile: one error Notice, the call returns
CatchError(p) ==
    [p EXCEPT !.pc = "done", !.failed = TRUE,
              !.notice = @ \o <<[kind |-> "error", count |-> 0]>>]

\* a processFile without the filter on the basename
StartWithoutFilter(file, trigger, id) == NewProc(file, trigger, id, "read")

\* processFile(file) up to its first await: new RegExp throws into the
\* catch block when the pattern does not compile; the call returns at once
\* when the basename does not match, else it waits for vault.read
StartProcessFile(file, trigger, id) ==
    IF ~IsValidRegex(settings.fileRegex)
    THEN CatchError(NewProc(file, trigger, id, "done"))
    ELSE IF MatchesFileRegex(file, settings.fileRegex)
    THEN NewProc(file, trigger, id, "read")
    ELSE NewProc(file, trigger, id, "done")

\* a loop that ends at the first entry that does not resolve
StopAtUnresolved(todo) ==
    IF todo # <<>> /\ ~IsMarkdownTarget(Head(todo).target) THEN <<>> ELSE todo

\* the else branch of the for loop: entries that do not resolve to a
\* markdown file are logged and passed over
RECURSIVE SkipUnresolved(_)
SkipUnresolved(todo) ==
    IF todo # <<>> /\ ~IsMarkdownTarget(Head(todo).target)
    THEN SkipUnresolved(Tail(todo))
    ELSE todo

\* the end of the for loop: the summary Notice
Summary(count) ==
    IF count > 0 /\ settings.showUpdateNotice
    THEN <<[kind |-> "updated", count |-> count]>>
    ELSE <<>>

\* the for loop from the entries `todo` on, up to the next await or the return
RunLoop(p, todo, count) ==
    LET rest == SkipUnresolved(todo)
    IN  IF rest # <<>>
        THEN [p EXCEPT !.pc = "update", !.todo = rest, !.updatedCount = count,
                       !.attempted = @ \cup {GetFirstLinkpathDest(Head(rest).target)}]
        ELSE [p EXCEPT !.pc = "done", !.todo = <<>>, !.updatedCount = count,
                       !.notice = @ \o Summary(count)]

\* a catch inside the loop: the failed target is passed over
CatchInsideLoop(p) == RunLoop(p, Tail(p.todo), p.updatedCount)

\* updateFrontmatter's `throw error`, landing in the catch block of processFile
RethrownUpdateError(p) == CatchError(p)

\* frontmatter read from a copy taken at start instead of inside the
\* processFrontMatter transaction
ReadCachedFrontmatter(f) == frontmatter0[f]

\* the frontmatter object processFrontMatter hands to the callback
ReadFrontmatter(f) == frontmatter[f]

(***************************************************************************)
(* debounce                                                                *)
(***************************************************************************)
\* a debounce that forgets clearTimeout
NoClearTimeout(ts, handle) == ts

\* clearTimeout(timeout)
ClearTimeout(ts, handle) == {t \in ts : t.id # handle}

\* a timer armed without delay
DueAtOnce(at, w) == at

\* a timer armed with the default delay whatever `wait` is
DueAfterDefault(at, w) == at + DefaultDebounceTimeout

\* setTimeout(..., wait): when the callback is due
TimerDue(at, w) == at + w

\* a gate that forgets the active-file comparison
GateWithoutActiveFile(file) == file # NoFile /\ Extension(file) = "md"

\* file && file.extension === 'md' && file === getActiveFile()
PassesGate(file) ==
    /\ file # NoFile
    /\ Extension(file) = "md"
    /\ file = activeFile

(***************************************************************************)
(* Events                                                                  *)
(***************************************************************************)
pureVars == <<mergeCall, extractCall>>

Opened == Cardinality({i \in 1..Len(procs) : procs[i].trigger = "open"})

\* the events delivered so far
Delivered == Opened + Len(modifyLog) + Len(inputs)

\* a file-open handler that goes through the debounce
FileOpenDebounced(file) ==
    /\ Delivered < MaxEvents
    /\ timers' = ClearTimeout(timers, timeout)
                   \cup {[id |-> Len(modifyLog) + 1, file |-> file,
                          due |-> now + wait]}
    /\ timeout' = Len(modifyLog) + 1
    /\ UNCHANGED <<settings, wait, activeFile, content, frontmatter, procs,
                   now, modifyLog, firedLog, frontmatter0, tabVars, pureVars>>

\* workspace 'file-open' with `file` (null when the last pane closes)
FileOpen(file) ==
    /\ Delivered < MaxEvents
    /\ IF file # NoFile /\ Extension(file) = "md"
       THEN procs' = Append(procs, StartProcessFile(file, "open", 0))
       ELSE procs' = procs
    /\ UNCHANGED <<settings, wait, timeout, timers, activeFile, content,
                   frontmatter, now, modifyLog, firedLog, frontmatter0, tabVars, pureVars>>

\* the host's active file changes
ActiveFileChange(file) ==
    /\ file # activeFile
    /\ activeFile' = file
    /\ UNCHANGED <<settings, wait, timeout, timers, content, frontmatter,
                   procs, now, modifyLog, firedLog, frontmatter0, tabVars, pureVars>>

\* vault 'modify' with `file`: the function debounce returned
Modify(file) ==
    /\ Delivered < MaxEvents
    /\ LET id == Len(modifyLog) + 1
       IN  /\ timers' = ClearTimeout(timers, timeout)
                          \cup {[id |-> id, file |-> file, due |-> TimerDue(now, wait)]}
           /\ timeout' = id
    /\ modifyLog' = Append(modifyLog, [file |-> file, at |-> now,
                                       debounceMs |-> settings.debounceTimeout])
    /\ UNCHANGED <<settings, wait, activeFile, content, frontmatter, procs,
                   now, firedLog, frontmatter0, tabVars, pureVars>>

\* a timer that arms itself again when it fires
TimerFireRepeating(t) ==
    /\ t \in timers
    /\ t.due <= now
    /\ timers' = (timers \ {t}) \cup {[t EXCEPT !.due = now + wait]}
    /\ firedLog' = firedLog \cup {[id |-> t.id, file |-> t.file,
                                   active |-> activeFile, at |-> now]}
    /\ IF PassesGate(t.file)
       THEN procs' = Append(procs, StartProcessFile(t.file, "timer", t.id))
       ELSE procs' = procs
    /\ UNCHANGED <<settings, wait, timeout, activeFile, content, frontmatter,
                   now, modifyLog, frontmatter0, tabVars, pureVars>>

\* the timer callback: func.apply(this, args)
TimerFire(t) ==
    /\ t \in timers
    /\ t.due <= now
    /\ timers' = timers \ {t}
    /\ firedLog' = firedLog \cup {[id |-> t.id, file |-> t.file,
                                   active |-> activeFile, at |-> now]}
    /\ IF PassesGate(t.file)
       THEN procs' = Append(procs, StartProcessFile(t.file, "timer", t.id))
       ELSE procs' = procs
    /\ UNCHANGED <<settings, wait, timeout, activeFile, content, frontmatter,
                   now, modifyLog, frontmatter0, tabVars, pureVars>>

\* 500 ms pass; a due timer runs before time moves on
Tick ==
    /\ now < MaxTicks * 500
    /\ \A t \in timers : t.due > now
    /\ now' = now + 500
    /\ UNCHANGED <<settings, wait, timeout, timers, activeFile, content,
                   frontmatter, procs, modifyLog, firedLog, frontmatter0, tabVars, pureVars>>

\* 500 ms pass while a timer is pending, however late it is
Elapse ==
    /\ timers # {}
    /\ \A t \in timers : t.due > now
    /\ now' = now + 500
    /\ UNCHANGED <<settings, wait, timeout, timers, activeFile, content,
                   frontmatter, procs, modifyLog, firedLog, frontmatter0,
                   tabVars, pureVars>>

\* one run of an onChange handler of the settings tab: the field, the value
\* handed over, the Notices raised and whether saveData stored the settings
TabRun(field, value, notices, saved) ==
    [field |-> field, value |-> value, notices |-> notices, saved |-> saved]

\* saveSettings: the Notice of its catch block when saveData rejects
SaveNotice(saves) == IF saves THEN <<>> ELSE <<"save failed">>

\* the onChange handler of the "File name regex" field
ChangeFileRegex(value, saves) ==
    /\ Delivered < MaxEvents
    /\ IF IsValidRegex(value)
       THEN /\ settings' = [settings EXCEPT !.fileRegex =
                               IF value = "" THEN DefaultSettings.fileRegex ELSE value]
            /\ data' = IF saves THEN settings' ELSE data
            /\ inputs' = Append(inputs,
                            TabRun("fileRegex", value, SaveNotice(saves), saves))
       ELSE /\ inputs' = Append(inputs,
                            TabRun("fileRegex", value, <<"invalid regex">>, FALSE))
            /\ UNCHANGED <<settings, data>>
    /\ UNCHANGED <<wait, timeout, timers, activeFile, content, frontmatter,
                   procs, now, modifyLog, firedLog, frontmatter0, pureVars>>

\* the onChange handler of the "Show update notice" toggle
ChangeShowUpdateNotice(value, saves) ==
    /\ Delivered < MaxEvents
    /\ settings' = [settings EXCEPT !.showUpdateNotice = value]
    /\ data' = IF saves THEN settings' ELSE data
    /\ inputs' = Append(inputs,
                    TabRun("showUpdateNotice", value, SaveNotice(saves), saves))
    /\ UNCHANGED <<wait, timeout, timers, activeFile, content, frontmatter,
                   procs, now, modifyLog, firedLog, frontmatter0, pureVars>>

\* the onChange handler of the "Debounce timeout (ms)" field
ChangeDebounce(value, saves) ==
    /\ Delivered < MaxEvents
    /\ LET numValue == ParseInt(value)
       IN  IF \/ numValue.isNaN
              \/ numValue.number < MinDebounceTimeout
              \/ numValue.number > MaxDebounceTimeout
           THEN /\ inputs' = Append(inputs,
                                TabRun("debounceTimeout", value, <<"out of range">>, FALSE))
                /\ UNCHANGED <<settings, data>>
           ELSE /\ settings' = [settings EXCEPT !.debounceTimeout = numValue.number]
                /\ data' = IF saves THEN settings' ELSE data
                /\ inputs' = Append(inputs,
                                TabRun("debounceTimeout", value,
                                       SaveNotice(saves) \o <<"restart to apply">>, saves))
    /\ UNCHANGED <<wait, timeout, timers, activeFile, content, frontmatter,
                   procs, now, modifyLog, firedLog, frontmatter0, pureVars>>

(***************************************************************************)
(* The awaits of processFile                                               *)
(***************************************************************************)
\* vault.read resolves: extractAliases, then the loop up to its first await
ReadResolves(i) ==
    /\ i \in 1..Len(procs)
    /\ procs[i].pc = "read"
    /\ LET p == procs[i]
           extracted == ExtractAliases(content[p.file])
       IN  procs' = [procs EXCEPT ![i] =
                IF extracted.threw THEN CatchError(p)
                ELSE RunLoop([p EXCEPT !.map = extracted.map], extracted.map, 0)]
    /\ UNCHANGED <<settings, wait, timeout, timers, activeFile, content,
                   frontmatter, now, modifyLog, firedLog, frontmatter0, tabVars, pureVars>>

\* vault.read rejects
ReadRejects(i) ==
    /\ i \in 1..Len(procs)
    /\ procs[i].pc = "read"
    /\ procs' = [procs EXCEPT ![i] = CatchError([procs[i] EXCEPT !.unreadable = TRUE])]
    /\ UNCHANGED <<settings, wait, timeout, timers, activeFile, content,
                   frontmatter, now, modifyLog, firedLog, frontmatter0, tabVars, pureVars>>

\* processFrontMatter runs the callback and writes the file, in one step
\* of the host; then updatedCount++ and the loop goes on
UpdateResolves(i) ==
    /\ i \in 1..Len(procs)
    /\ procs[i].pc = "update"
    /\ LET p == procs[i]
           entry == Head(p.todo)
           target == GetFirstLinkpathDest(entry.target)
       IN  /\ frontmatter' = [frontmatter EXCEPT ![target] =
                                MergeAliases(ReadFrontmatter(target), entry.aliases)]
           /\ procs' = [procs EXCEPT ![i] =
                RunLoop([p EXCEPT !.wrote = @ \cup {[file |-> target,
                                                     target |-> entry.target,
                                                     aliases |-> entry.aliases]}],
                        Tail(p.todo), p.updatedCount + 1)]
    /\ UNCHANGED <<settings, wait, timeout, timers, activeFile, content, now,
                   modifyLog, firedLog, frontmatter0, tabVars, pureVars>>

\* processFrontMatter rejects: updateFrontmatter rethrows into processFile
UpdateRejects(i) ==
    /\ i \in 1..Len(procs)
    /\ procs[i].pc = "update"
    /\ LET p == procs[i]
           target == GetFirstLinkpathDest(Head(p.todo).target)
       IN  procs' = [procs EXCEPT ![i] =
                RethrownUpdateError([p EXCEPT !.rejected = @ \cup {target}])]
    /\ UNCHANGED <<settings, wait, timeout, timers, activeFile, content,
                   frontmatter, now, modifyLog, firedLog, frontmatter0, tabVars, pureVars>>

\* processFile(file) called by either handler, the scheduling left open
ProcessFileCalled(file, trigger) ==
    /\ Len(procs) < MaxCalls
    /\ Extension(file) = "md"
    /\ procs' = Append(procs, StartProcessFile(file, trigger, 0))
    /\ UNCHANGED <<settings, wait, timeout, timers, activeFile, content,
                   frontmatter, now, modifyLog, firedLog, frontmatter0, tabVars, pureVars>>

Next ==
    \/ \E file \in OpenedFiles \cup {NoFile} : FileOpen(file)
    \/ \E file \in FocusFiles : ActiveFileChange(file)
    \/ \E file \in ModifiedFiles : Modify(file)
    \/ \E t \in timers : TimerFire(t)
    \/ Tick
    \/ \E value \in TypedDebounce, saves \in SaveOutcomes :
          ChangeDebounce(value, saves)
    \/ \E i \in 1..Len(procs) : ReadResolves(i)
    \/ \E i \in 1..Len(procs) : ReadRejects(i)
    \/ \E i \in 1..Len(procs) : UpdateResolves(i)
    \/ \E i \in 1..Len(procs) : UpdateRejects(i)

\* the whole plugin: events, the debounce timer, and the processFile calls
Spec == Init /\ [][Next]_vars

PipelineNext ==
    \/ \E file \in Files, trigger \in {"open", "timer"} :
          ProcessFileCalled(file, trigger)
    \/ \E i \in 1..Len(procs) : ReadResolves(i)
    \/ \E i \in 1..Len(procs) : ReadRejects(i)
    \/ \E i \in 1..Len(procs) : UpdateResolves(i)
    \/ \E i \in 1..Len(procs) : UpdateRejects(i)

\* the processFile calls alone, over every note text and alias list
PipelineSpec == PipelineInit /\ [][PipelineNext]_vars

\* the plugin loaded with the default settings in the vault of Init
FairInit ==
    /\ activeFile = "D"
    /\ content = [f \in {"D", "E"} |->
                    IF f = "D"
                    THEN <<Occurrence(sUpP, TRUE, sUpA), Occurrence(sUpX, TRUE, sLowA)>>
                    ELSE <<Occurrence(sUpQ, FALSE, sEmpty)>>]
    /\ frontmatter = [f \in Files |-> IF f = "P" THEN <<sUpB>> ELSE <<>>]
    /\ Loaded(DefaultSettings)
    /\ mergeCall = IdleMergeCall
    /\ extractCall = IdleExtractCall

\* Time is followed only while a timer is pending, up to its firing.
FairNext ==
    \/ \E file \in OpenedFiles \cup {NoFile} : FileOpen(file)
    \/ \E file \in FocusFiles : ActiveFileChange(file)
    \/ \E file \in ModifiedFiles : Modify(file)
    \/ \E t \in timers : TimerFire(t)
    \/ Elapse
    \/ \E i \in 1..Len(procs) : ReadResolves(i)
    \/ \E i \in 1..Len(procs) : ReadRejects(i)
    \/ \E i \in 1..Len(procs) : UpdateResolves(i)
    \/ \E i \in 1..Len(procs) : UpdateRejects(i)

\* the plugin where the host keeps its promises: a pending timer's time
\* comes, a due timer runs, and every vault.read and processFrontMatter call
\* settles, one way or the other
FairSpec ==
    /\ FairInit
    /\ [][FairNext]_vars
    /\ WF_vars(Elapse)
    /\ WF_vars(\E t \in timers : TimerFire(t))
    /\ WF_vars(\E i \in 1..Len(procs) : ReadRejects(i) \/ ReadResolves(i))
    /\ WF_vars(\E i \in 1..Len(procs) : UpdateRejects(i) \/ UpdateResolves(i))

\* the plugin loaded, whatever debounceTimeout the persisted data held
SettingsInit ==
    /\ activeFile = NoFile
    /\ content = [f \in {"D", "E"} |-> <<>>]
    /\ frontmatter = [f \in Files |-> <<>>]
    /\ \E stored \in PersistedValues : Loaded(StoredData(TRUE, stored))
    /\ mergeCall = IdleMergeCall
    /\ extractCall = IdleExtractCall

SettingsNext ==
    \/ \E value \in TypedPatterns, saves \in SaveOutcomes :
          ChangeFileRegex(value, saves)
    \/ \E value \in BOOLEAN, saves \in SaveOutcomes :
          ChangeShowUpdateNotice(value, saves)
    \/ \E value \in TypedTexts, saves \in SaveOutcomes :
          ChangeDebounce(value, saves)

\* the settings tab alone
SettingsSpec == SettingsInit /\ [][SettingsNext]_vars

\* the plugin loaded with the default settings in the vault of Init
PatternInit ==
    /\ activeFile = NoFile
    /\ content = [f \in {"D", "E"} |->
                    IF f = "D"
                    THEN <<Occurrence(sUpP, TRUE, sUpA), Occurrence(sUpX, TRUE, sLowA)>>
                    ELSE <<Occurrence(sUpQ, TRUE, sLowB)>>]
    /\ frontmatter = [f \in Files |-> <<>>]
    /\ Loaded(DefaultSettings)
    /\ mergeCall = IdleMergeCall
    /\ extractCall = IdleExtractCall

PatternNext ==
    \/ \E value \in TypedPatterns, saves \in SaveOutcomes :
          ChangeFileRegex(value, saves)
    \/ \E file \in {"D", "E", "P"} : ProcessFileCalled(file, "open")
    \/ \E i \in 1..Len(procs) : ReadResolves(i)
    \/ \E i \in 1..Len(procs) : ReadRejects(i)
    \/ \E i \in 1..Len(procs) : UpdateResolves(i)
    \/ \E i \in 1..Len(procs) : UpdateRejects(i)

\* the pattern field of the settings tab and the processFile calls
PatternSpec == PatternInit /\ [][PatternNext]_vars

(***************************************************************************)
(* The merge and the extraction as functions of their arguments            *)
(***************************************************************************)
MaxListLen == 2
MaxOccurrences == 2

\* the sequences over S of length at most n
SeqsUpTo(S, n) == UNION {[1..k -> S] : k \in 0..n}

\* alias lists of arbitrary case
AliasLists == SeqsUpTo({sUpA, sLowA, sUpB, sLowB}, MaxListLen)

\* link occurrences: with and without alias, padded, empty, and a target
\* named like an inherited property
OccurrencePool ==
    {Occurrence(t, FALSE, sEmpty) : t \in {sUpP, sLowP, sConstructor}}
    \cup {Occurrence(t, TRUE, a) :
            t \in {sUpP, sPadUpP, sLowP, sBlank, sConstructor},
            a \in {sEmpty, sUpA, sLowA, sPadLowB}}

\* the plugin at rest; only the call under test moves
AtRest ==
    /\ activeFile = NoFile
    /\ content = [f \in {"D", "E"} |-> <<>>]
    /\ frontmatter = [f \in Files |-> <<>>]
    /\ Loaded(DefaultSettings)

MergeInit ==
    /\ AtRest
    /\ \E existing \in AliasLists, incoming \in AliasLists :
          mergeCall = [IdleMergeCall EXCEPT !.existing = existing,
                                            !.incoming = incoming]
    /\ extractCall = IdleExtractCall

\* merge(existing, incoming)
MergeOnce ==
    /\ mergeCall.stage = 0
    /\ mergeCall' = [mergeCall EXCEPT
          !.stage = 1,
          !.once = MergeAliases(mergeCall.existing, mergeCall.incoming)]
    /\ UNCHANGED <<progVars, extractCall>>

\* merge(merge(existing, incoming), incoming)
MergeTwice ==
    /\ mergeCall.stage = 1
    /\ mergeCall' = [mergeCall EXCEPT
          !.stage = 2,
          !.twice = MergeAliases(mergeCall.once, mergeCall.incoming)]
    /\ UNCHANGED <<progVars, extractCall>>

MergeNext == MergeOnce \/ MergeTwice

MergeSpec == MergeInit /\ [][MergeNext]_vars

ExtractInit ==
    /\ AtRest
    /\ mergeCall = IdleMergeCall
    /\ \E text \in SeqsUpTo(OccurrencePool, MaxOccurrences) :
          extractCall = [IdleExtractCall EXCEPT !.content = text]

\* extractAliases(content)
ExtractRuns ==
    /\ extractCall.stage = 0
    /\ extractCall' = [extractCall EXCEPT
          !.stage = 1,
          !.result = ExtractAliases(extractCall.content)]
    /\ UNCHANGED <<progVars, mergeCall>>

ExtractNext == ExtractRuns

ExtractSpec == ExtractInit /\ [][ExtractNext]_vars

(***************************************************************************)
(* Claims                                                                  *)
(***************************************************************************)
\* the processFile calls made by the debounce callback for file D
TimerCalls(D) ==
    {i \in 1..Len(procs) : procs[i].trigger = "timer" /\ procs[i].file = D}

\* exactly two modify events were delivered, both for the markdown file D,
\* less than ms apart
Burst(D, ms) ==
    /\ Len(modifyLog) = 2
    /\ modifyLog[1].file = D
    /\ modifyLog[2].file = D
    /\ Extension(D) = "md"
    /\ modifyLog[2].at - modifyLog[1].at < ms

\* the burst leads to at most one call for D, made ms after the second
\* event and not before; once that time has passed the callback has run, and
\* if D was the active file then, the call has been made
Collapse(D, ms) ==
    LET last == modifyLog[2]
    IN  /\ Cardinality(TimerCalls(D)) <= 1
        /\ \A i \in TimerCalls(D) : procs[i].firedAt = last.at + ms
        /\ now > last.at + ms =>
              \E r \in firedLog : r.id = 2 /\ r.at = last.at + ms
        /\ \A r \in firedLog :
              r.id = 2 /\ r.active = D => Cardinality(TimerCalls(D)) = 1

\* C1 as stated: two modify events for the same document D less than
\* debounceMs apart, debounceMs being the configured debounceTimeout when the
\* events arrive, lead to exactly one pipeline invocation for D, debounceMs
\* after the second event.
C1_CollapseAfterConfiguredDelay ==
    \A D \in Files :
        Burst(D, modifyLog[2].debounceMs) => Collapse(D, modifyLog[2].debounceMs)

\* C1 amended: two modify events for the same document D less than `wait`
\* apart, `wait` being the debounceTimeout the plugin was loaded with, lead to
\* exactly one pipeline invocation for D, `wait` ms after the second event
\* and not before (provided D is the active file when the timer fires).
C1_CollapseAfterLoadedDelay ==
    \A D \in Files : Burst(D, wait) => Collapse(D, wait)

\* C1 witness: a burst of two events 500 ms apart for D, and the one call
\* made for it
C1_Witness ==
    \E D \in Files :
        /\ Burst(D, wait)
        /\ modifyLog[2].at = modifyLog[1].at + 500
        /\ Cardinality(TimerCalls(D)) = 1

\* C2, the state part: every call made by the debounce callback belongs to
\* a firing at which its file was the active file, one call per firing; a
\* firing at which it was not leaves no call and no timer behind.
GateInv ==
    /\ \A i \in 1..Len(procs) :
          procs[i].trigger = "timer" =>
             /\ [id |-> procs[i].timerId, file |-> procs[i].file,
                 active |-> procs[i].file, at |-> procs[i].firedAt] \in firedLog
             /\ \A j \in 1..Len(procs) :
                   procs[j].trigger = "timer" /\ procs[j].timerId = procs[i].timerId
                      => j = i
    /\ \A r \in firedLog :
          r.active # r.file =>
             /\ \A i \in 1..Len(procs) :
                   ~(procs[i].trigger = "timer" /\ procs[i].timerId = r.id)
             /\ \A t \in timers : t.id # r.id

\* C2, the step part: the firing of a timer whose file is not the active
\* file starts no call at all and arms no timer.
GateStep ==
    \A r \in firedLog' \ firedLog :
        r.active # r.file => procs' = procs /\ timers' \subseteq timers

\* C2: when the debounce timer armed for document D fires and the active
\* document is not D, no pipeline invocation happens, for D or any other
\* document, and the skipped scan is neither queued nor retried.
C2_ActiveDocumentGate == []GateInv /\ [][GateStep]_vars

\* C2 witness: a timer armed for a markdown file fired while another file
\* was active, and time has moved on since
C2_Witness ==
    \E r \in firedLog :
        /\ Extension(r.file) = "md"
        /\ r.active \in Files
        /\ r.active # r.file
        /\ now > r.at

\* the files whose metadata update goes through in this step
UpdatedNow ==
    {GetFirstLinkpathDest(Head(procs[i].todo).target) :
        i \in {i \in 1..Len(procs) :
                 /\ procs[i].pc = "update"
                 /\ procs'[i].updatedCount > procs[i].updatedCount}}

\* C3: each alias in a target's list before a metadata update is, in
\* lower-cased form, still in the list after it; a step that updates no
\* metadata of a file leaves its list as it is.
C3_NoAliasLost ==
    [][\A f \in Files :
          IF f \in UpdatedNow
          THEN \A k \in 1..Len(frontmatter[f]) :
                  ToLowerCase(frontmatter[f][k]) \in Range(frontmatter'[f])
          ELSE frontmatter'[f] = frontmatter[f]]_vars

\* C3 witness: a note that had aliases of mixed case has been updated by
\* two calls
C3_Witness ==
    /\ frontmatter0["P"] = <<sUpB, sLowA, sUpA>>
    /\ \E i, j \in 1..Len(procs) :
          /\ i # j
          /\ \E w \in procs[i].wrote : w.file = "P"
          /\ \E w \in procs[j].wrote : w.file = "P"

\* ascending code-unit order, which leaves no two equal entries
Ascending(list) ==
    \A k \in 1..(Len(list) - 1) : StrLess(list[k], list[k + 1])

\* no two entries equal under case-insensitive comparison
NoCaseDuplicates(list) ==
    \A j, k \in 1..Len(list) :
        j # k => ToLowerCase(list[j]) # ToLowerCase(list[k])

\* the files some processFile call has written
Written == UNION {{w.file : w \in procs[i].wrote} : i \in 1..Len(procs)}

\* C4: once a pipeline invocation has written a target's metadata, its
\* alias list has no two entries equal under case-insensitive comparison
\* and is in ascending code-unit order.
C4_WrittenListsNormalised ==
    \A f \in Written :
        Ascending(frontmatter[f]) /\ NoCaseDuplicates(frontmatter[f])

\* C4 witness: a list that was unsorted with a case duplicate has been written
C4_Witness ==
    /\ "P" \in Written
    /\ ~Ascending(frontmatter0["P"])
    /\ ~NoCaseDuplicates(frontmatter0["P"])

\* the sorted, duplicate-free list of the lower-cased entries of both lists
LoweredUnion(a, b) ==
    SortedArray({ToLowerCase(x) : x \in Range(a) \cup Range(b)})

\* C5: the merge lower-cases every entry of both lists: its result is the
\* sorted duplicate-free list of the lower-cased entries of both.
C5_MergeLowersBoth ==
    mergeCall.stage >= 1 =>
        mergeCall.once = LoweredUnion(mergeCall.existing, mergeCall.incoming)

\* C6: merge(merge(a, b), b) equals merge(a, b) for lists of arbitrary case.
C6_MergeIdempotent ==
    mergeCall.stage = 2 => mergeCall.twice = mergeCall.once

\* the trimmed targets of the occurrences that have a non-empty alias
ExpectedKeys(text) ==
    {Trim(text[k].target) : k \in {k \in 1..Len(text) : Qualifies(text[k])}}

\* the lower-cased trimmed aliases given to target t
ExpectedAliases(text, t) ==
    {ToLowerCase(Trim(text[k].alias)) :
        k \in {k \in 1..Len(text) : Qualifies(text[k]) /\ Trim(text[k].target) = t}}

\* C7: the AliasMap has a key t exactly when some occurrence has trimmed
\* target t and a non-empty trimmed alias, and its value is the sorted
\* duplicate-free list of the lower-cased trimmed aliases of t.
C7_ExtractionResult ==
    extractCall.stage = 1 =>
        LET text == extractCall.content
            map == extractCall.result.map
        IN  /\ ~extractCall.result.threw
            /\ {map[k].target : k \in 1..Len(map)} = ExpectedKeys(text)
            /\ \A j, k \in 1..Len(map) : map[j].target = map[k].target => j = k
            /\ \A k \in 1..Len(map) :
                  /\ map[k].aliases # <<>>
                  /\ map[k].aliases = SortedArray(ExpectedAliases(text, map[k].target))

\* the markdown files the entries of an alias map resolve to
ResolvedTargets(map) ==
    {GetFirstLinkpathDest(map[k].target) :
        k \in {k \in 1..Len(map) : IsMarkdownTarget(map[k].target)}}

\* C8 as stated: when the metadata update of one target fails, every
\* remaining target of the same AliasMap is still processed.
C8_RemainingTargetsProcessed ==
    \A i \in 1..Len(procs) :
        procs[i].rejected # {} /\ procs[i].pc = "done" =>
            ResolvedTargets(procs[i].map) \subseteq procs[i].attempted

\* C8 amended: when the metadata update of one target fails, the invocation
\* ends there with one error notice: the targets updated before it stay
\* updated, the remaining targets of the AliasMap are not processed.
C8_FailedUpdateEndsInvocation ==
    \A i \in 1..Len(procs) :
        procs[i].rejected # {} =>
            /\ procs[i].pc = "done"
            /\ procs[i].failed
            /\ procs[i].attempted =
                  {w.file : w \in procs[i].wrote} \cup procs[i].rejected
            /\ procs[i].todo # <<>>
            /\ procs[i].rejected = {GetFirstLinkpathDest(Head(procs[i].todo).target)}
            /\ \A k \in 2..Len(procs[i].todo) : \A w \in procs[i].wrote :
                  w.target # procs[i].todo[k].target
            /\ procs[i].notice = <<[kind |-> "error", count |-> 0]>>

\* C8 witness: an update failed while a resolvable target was still to come
C8_Witness ==
    \E i \in 1..Len(procs) :
        /\ procs[i].rejected # {}
        /\ ResolvedTargets(Tail(procs[i].todo)) # {}

\* C9: whatever the interleaving, the alias list of a target that has been
\* updated holds its original aliases (lower-cased) and the aliases of every
\* update made to it.
C9_NoLostUpdate ==
    /\ \A f \in Written :
          {ToLowerCase(x) : x \in Range(frontmatter0[f])} \subseteq Range(frontmatter[f])
    /\ \A i \in 1..Len(procs) : \A w \in procs[i].wrote :
          Range(w.aliases) \subseteq Range(frontmatter[w.file])

\* C9 witness: two calls, one from each trigger, have both updated P, which
\* had aliases, with different lists, while the first was still running
C9_Witness ==
    \E i, j \in 1..Len(procs) :
        /\ procs[i].trigger = "open"
        /\ procs[j].trigger = "timer"
        /\ procs[i].pc = "update"
        /\ frontmatter0["P"] # <<>>
        /\ \E w \in procs[i].wrote, v \in procs[j].wrote :
              w.file = "P" /\ v.file = "P" /\ w.aliases # v.aliases

\* C10: at most one debounce timer is armed; it is the one of the latest
\* modify event, for that event's file, armed by every modify event until
\* it fires; and a callback that has run was not superseded: no later modify
\* event had arrived before it ran.
C10_SingleSharedTimer ==
    /\ Cardinality(timers) <= 1
    /\ \A t \in timers :
          /\ t.id = timeout
          /\ t.id = Len(modifyLog)
          /\ t.file = modifyLog[t.id].file
    /\ Len(modifyLog) > 0 /\ (\A r \in firedLog : r.id # Len(modifyLog))
          => \E t \in timers : t.id = Len(modifyLog)
    /\ \A r \in firedLog : \A k \in 1..Len(modifyLog) :
          k > r.id => modifyLog[k].at >= r.at

\* C10 witness: a modify for D, then within the window one for E; the timer
\* has fired and it was E's
C10_Witness ==
    /\ Len(modifyLog) = 2
    /\ modifyLog[1].file = "D"
    /\ modifyLog[2].file = "E"
    /\ modifyLog[2].at - modifyLog[1].at < wait
    /\ modifyLog[2].at > modifyLog[1].at
    /\ \E r \in firedLog : r.id = 2 /\ r.file = "E"
    /\ \A r \in firedLog : r.id # 1

\* C11: a processFile call for a file whose basename does not match the
\* pattern configured at the time of the call returns without calling
\* vault.read, without a metadata update and without a Notice.
C11_MismatchHasNoEffect ==
    \A i \in 1..Len(procs) :
        ~MatchesFileRegex(procs[i].file, procs[i].fileRegex) =>
            /\ procs[i].pc = "done"
            /\ ~procs[i].read
            /\ procs[i].attempted = {}
            /\ procs[i].wrote = {}
            /\ procs[i].notice = <<>>

\* C11 witness: P, whose name is not a date, was turned away under the
\* default pattern, and E under a pattern that its name does not match
C11_Witness ==
    \E j, k \in 1..Len(procs) :
        /\ procs[j].file = "E" /\ procs[j].fileRegex = "first" /\ procs[j].pc = "done"
        /\ procs[k].file = "P" /\ procs[k].fileRegex = "date" /\ procs[k].pc = "done"

\* the pattern in effect after the runs of the settings tab in `runs`, from
\* `pattern`: the last text entered other than "[", the default for ""
RECURSIVE EffectivePattern(_, _)
EffectivePattern(runs, pattern) ==
    IF runs = <<>> THEN pattern
    ELSE EffectivePattern(Tail(runs),
            IF Head(runs).field = "fileRegex" /\ Head(runs).value # "["
            THEN IF Head(runs).value = "" THEN "date" ELSE Head(runs).value
            ELSE pattern)

\* the runs of the pattern field that were given the pattern "["
InvalidRuns ==
    {k \in 1..Len(inputs) : inputs[k].field = "fileRegex" /\ inputs[k].value = "["}

\* C12, the state part: entering "[" raises one error Notice and saves
\* nothing, the configured pattern is the last valid one entered, and every
\* processFile call filters with the last valid pattern entered before it.
PatternInv ==
    /\ \A k \in InvalidRuns :
          inputs[k].notices = <<"invalid regex">> /\ ~inputs[k].saved
    /\ settings.fileRegex = EffectivePattern(inputs, "date")
    /\ \A i \in 1..Len(procs) :
          /\ procs[i].fileRegex =
                EffectivePattern(SubSeq(inputs, 1, procs[i].inputsBefore), "date")
          /\ ~procs[i].failed =>
                (procs[i].read <=> MatchesFileRegex(procs[i].file, procs[i].fileRegex))

\* C12, the step part: the step that enters "[" leaves the settings and the
\* persisted data as they were.
PatternStep ==
    Len(inputs') > Len(inputs) /\ Len(inputs') \in InvalidRuns'
        => settings' = settings /\ data' = data

\* C12: when a pattern that does not compile is entered in the settings,
\* the configured pattern keeps its previous value, nothing is persisted,
\* exactly one error Notice is shown and later processFile calls filter
\* with the previous pattern.
C12_InvalidPatternRejected == []PatternInv /\ [][PatternStep]_vars

\* C12 witness: "first" was entered, then "["; E, called after that, was
\* turned away by the pattern "first" and D was read
C12_Witness ==
    /\ Len(inputs) = 2
    /\ inputs[1].value = "first"
    /\ inputs[2].value = "["
    /\ data.fileRegex = "first"
    /\ \E i, j \in 1..Len(procs) :
          /\ procs[i].inputsBefore = 2 /\ procs[i].file = "E" /\ ~procs[i].read
          /\ procs[j].inputsBefore = 2 /\ procs[j].file = "D" /\ procs[j].read

\* the processFile calls made in this step
NewCalls == (Len(procs) + 1)..Len(procs')

\* C13: a file-open event for a markdown file starts processFile for that
\* file in the same step, whether or not a timer is pending, and leaves
\* the timers and the `timeout` handle as they were; only a modify event or
\* the firing of a timer changes them.
C13_FileOpenBypassesDebounce ==
    [][/\ \A i \in NewCalls :
             procs'[i].trigger = "open" =>
                /\ timers' = timers
                /\ timeout' = timeout
                /\ now' = now
                /\ Extension(procs'[i].file) = "md"
                /\ procs'[i].pc = IF MatchesFileRegex(procs'[i].file, settings.fileRegex)
                                  THEN "read" ELSE "done"
       /\ timers' # timers \/ timeout' # timeout =>
             Len(modifyLog') > Len(modifyLog) \/ firedLog' # firedLog]_vars

\* C13 witness: D was modified, then the debounce field was changed, then
\* D was opened: its processFile call is there while the timer armed for D
\* is still pending
C13_Witness ==
    /\ Len(modifyLog) = 1
    /\ modifyLog[1].file = "D"
    /\ Len(inputs) = 1
    /\ modifyLog[1].debounceMs # settings.debounceTimeout
    /\ \E t \in timers : t.id = 1 /\ t.file = "D" /\ t.due > now
    /\ \E i \in 1..Len(procs) :
          /\ procs[i].trigger = "open"
          /\ procs[i].file = "D"
          /\ procs[i].inputsBefore = 1

\* every timer armed and every callback run, measured against the delay ms
\* given for each modify event
DelayIs(ms(_)) ==
    /\ \A t \in timers : t.due = modifyLog[t.id].at + ms(modifyLog[t.id])
    /\ \A r \in firedLog : r.at = modifyLog[r.id].at + ms(modifyLog[r.id])

ConfiguredAtEvent(e) == e.debounceMs
LoadedAtStart(e) == wait

\* C14 as stated: the timer armed by a modify event fires debounceMs after
\* the event, debounceMs being the configured debounceTimeout at the time
\* of the event, also after the settings tab has changed it.
C14_FiresAfterConfiguredDelay == DelayIs(ConfiguredAtEvent)

\* C14 amended: the timer armed by a modify event fires `wait` ms after the
\* event, `wait` being the debounceTimeout the plugin was loaded with, in
\* [1000, 5000]; it is the configured value as long as the settings tab has
\* not changed it, and a change does not alter the delay.
C14_FiresAfterLoadedDelay ==
    /\ DelayIs(LoadedAtStart)
    /\ wait \in MinDebounceTimeout..MaxDebounceTimeout
    /\ (\A k \in 1..Len(inputs) : inputs[k].field # "debounceTimeout")
          => wait = settings.debounceTimeout

\* C14 witness: a timer has fired for a modify event that arrived after
\* the settings tab had changed the debounce timeout
C14_Witness ==
    \E r \in firedLog :
        /\ modifyLog[r.id].debounceMs # wait
        /\ r.at = modifyLog[r.id].at + wait

\* the texts that are a decimal integer of the range 1000..5000, white
\* space around it aside
InRangeNumeral(value) ==
    LET z == Trim(value)
    IN  /\ z # <<>>
        /\ \A i \in 1..Len(z) : IsDigit(z[i])
        /\ DecimalValue(z) \in MinDebounceTimeout..MaxDebounceTimeout

\* the runs of the debounce field that were given a text that is not a
\* number of the range
OutOfRangeRuns ==
    {k \in 1..Len(inputs) :
        inputs[k].field = "debounceTimeout" /\ ~InRangeNumeral(inputs[k].value)}

\* C15: whatever integer the persisted data held and whatever was entered
\* in the settings tab, the configured debounceTimeout is an integer of
\* 1000..5000; an input that is not a number of that range is not persisted
\* and leaves the configured value as it was loaded.
C15_DebounceWithinRange ==
    /\ settings.debounceTimeout \in MinDebounceTimeout..MaxDebounceTimeout
    /\ \A k \in OutOfRangeRuns : ~inputs[k].saved
    /\ OutOfRangeRuns = 1..Len(inputs) =>
          /\ settings = LoadSettings(data)
          /\ wait = settings.debounceTimeout

\* the summary Notices of a call, and the files it has updated
SummaryNotices(p) == {k \in 1..Len(p.notice) : p.notice[k].kind = "updated"}
DocumentsUpdated(p) == {w.file : w \in p.wrote}

\* C16: a call that has updated at least one file, with notices enabled,
\* raises exactly one summary Notice, carrying the number of files updated;
\* a call that has updated none, or with notices disabled, raises none;
\* no call raises more than one.
C16_OneSummaryNotice ==
    \A i \in 1..Len(procs) :
        LET p == procs[i]
        IN  /\ Cardinality(SummaryNotices(p)) <= 1
            /\ p.pc = "done" =>
                  IF DocumentsUpdated(p) # {} /\ settings.showUpdateNotice
                  THEN \E k \in SummaryNotices(p) :
                          p.notice[k].count = Cardinality(DocumentsUpdated(p))
                  ELSE SummaryNotices(p) = {}

\* the entries of the call's aliasMap that the loop has passed
Passed(p) == 1..(Len(p.map) - Len(p.todo))

\* C17: an entry whose target does not resolve, or resolves to a file that
\* is not markdown, is passed over: nothing is written and no Notice is
\* raised for it, the call does not fail because of it, and the entries
\* around it that resolve are updated.
C17_ResolutionMissSkipped ==
    \A i \in 1..Len(procs) :
        LET p == procs[i]
        IN  /\ \A w \in p.wrote : IsMarkdownTarget(w.target)
            /\ NoFile \notin p.attempted /\ "I" \notin p.attempted
            /\ p.failed => p.unreadable \/ p.rejected # {}
            /\ ~p.failed =>
                  /\ \A k \in Passed(p) :
                        IsMarkdownTarget(p.map[k].target) =>
                            \E w \in p.wrote : w.target = p.map[k].target
                  /\ p.pc = "done" => Passed(p) = 1..Len(p.map)
                  /\ \A k \in 1..Len(p.notice) : p.notice[k].kind = "updated"
                  /\ Len(p.notice) <= 1

\* C17 witness: a call has returned without error after passing over an
\* attachment and then updating P; another after updating P and then
\* passing over a name no file has
C17_Witness ==
    \E i, j \in 1..Len(procs) :
        /\ procs[i].pc = "done" /\ ~procs[i].failed
        /\ Len(procs[i].map) = 2
        /\ GetFirstLinkpathDest(procs[i].map[1].target) = "I"
        /\ \E w \in procs[i].wrote : w.target = procs[i].map[2].target
        /\ procs[j].pc = "done" /\ ~procs[j].failed
        /\ Len(procs[j].map) = 2
        /\ GetFirstLinkpathDest(procs[j].map[2].target) = NoFile
        /\ \E w \in procs[j].wrote : w.target = procs[j].map[1].target

\* the calls whose vault.read rejects in this step
ReadFailures ==
    {i \in 1..Len(procs) : ~procs[i].unreadable /\ procs'[i].unreadable}

\* C18, the state part: a call whose vault.read rejected has updated no
\* metadata and has raised one error Notice.
UnreadableInv ==
    \A i \in 1..Len(procs) :
        procs[i].unreadable =>
            /\ procs[i].pc = "done"
            /\ procs[i].attempted = {}
            /\ procs[i].wrote = {}
            /\ procs[i].notice = <<[kind |-> "error", count |-> 0]>>

\* C18, the step part: the rejection changes neither the timers nor the
\* metadata nor any other call; and once a read has failed, a file-open
\* still starts its call as before and a modify event still arms the timer
\* as before.
UnreadableStep ==
    /\ ReadFailures # {} =>
          /\ timers' = timers /\ timeout' = timeout
          /\ frontmatter' = frontmatter
          /\ settings' = settings /\ wait' = wait
          /\ \A j \in 1..Len(procs) : j \notin ReadFailures => procs'[j] = procs[j]
    /\ (\E i \in 1..Len(procs) : procs[i].unreadable) =>
          /\ \A j \in NewCalls :
                /\ ~procs'[j].failed
                /\ procs'[j].pc = IF MatchesFileRegex(procs'[j].file, settings.fileRegex)
                                  THEN "read" ELSE "done"
          /\ Len(modifyLog') > Len(modifyLog) =>
                timers' = {[id |-> Len(modifyLog'),
                            file |-> modifyLog'[Len(modifyLog')].file,
                            due |-> now + wait]}

\* C18: when vault.read fails, the call updates no metadata and raises
\* exactly one error Notice; the timers stay as they are and later
\* file-open and modify events are handled as before.
C18_UnreadableAbortsOneCall == []UnreadableInv /\ [][UnreadableStep]_vars

\* C18 witness: the read of D failed in one call, and a call for D made
\* after that one, for a timer, has updated P
C18_Witness ==
    \E i, j \in 1..Len(procs) :
        /\ i < j
        /\ procs[i].unreadable
        /\ procs[i].file = "D" /\ procs[j].file = "D"
        /\ procs[j].trigger = "timer"
        /\ \E w \in procs[j].wrote : w.file = "P"

\* whether the text of file f has a link to `target` with an alias that is
\* not blank
LinksWithAlias(f, target) ==
    \E k \in 1..Len(content[f]) :
        /\ content[f][k].piped
        /\ Trim(content[f][k].alias) # <<>>
        /\ Trim(content[f][k].target) = target

\* C19, the state part: every update a call has made went to the markdown
\* file that a target linked with an alias in the call's file resolves to,
\* and a file no call has updated has the metadata it started with.
FootprintInv ==
    /\ \A i \in 1..Len(procs) : \A w \in procs[i].wrote :
          /\ LinksWithAlias(procs[i].file, w.target)
          /\ w.file = GetFirstLinkpathDest(w.target)
          /\ Extension(w.file) = "md"
    /\ \A f \in Files :
          (\A i \in 1..Len(procs) : f \notin DocumentsUpdated(procs[i]))
              => frontmatter[f] = frontmatter0[f]

\* C19, the step part: no step writes the text of a note, and a step that
\* changes the metadata of a file is an update one call makes to that file.
FootprintStep ==
    /\ content' = content
    /\ \A f \in Files :
          frontmatter'[f] # frontmatter[f] =>
              \E i \in 1..Len(procs) :
                  \E w \in procs'[i].wrote \ procs[i].wrote : w.file = f

\* C19: a call for a note writes the metadata only of the files that the
\* targets linked with an alias in that note resolve to; files linked
\* without alias, targets that do not resolve and the note itself, unless
\* it links to itself with an alias, keep their metadata, and no text is
\* written.
C19_WriteFootprint == []FootprintInv /\ [][FootprintStep]_vars

\* C19 witness: a call for E, which links to itself with an alias and to P
\* without one, has updated E alone and has returned; a call
\* for D has updated P
C19_Witness ==
    \E i, j \in 1..Len(procs) :
        /\ procs[i].file = "E" /\ procs[i].pc = "done"
        /\ DocumentsUpdated(procs[i]) = {"E"}
        /\ frontmatter["E"] # frontmatter0["E"]
        /\ ~LinksWithAlias("E", sUpP)
        /\ procs[j].file = "D"
        /\ DocumentsUpdated(procs[j]) = {"P"}

\* no timer is armed and every processFile call has returned
Idle ==
    /\ timers = {}
    /\ \A i \in 1..Len(procs) : procs[i].pc = "done"

\* no two calls were made for the same timer
OneCallPerTimer ==
    \A i, j \in 1..Len(procs) :
        /\ procs[i].trigger = "timer"
        /\ procs[j].trigger = "timer"
        /\ procs[i].timerId = procs[j].timerId
        => i = j

\* a timer is armed only by a modify event, for that event; a call is
\* started only by a file-open event or by the firing of a timer, which is
\* gone afterwards
QuietStep ==
    /\ \A t \in timers' \ timers :
          Len(modifyLog') > Len(modifyLog) /\ t.id = Len(modifyLog')
    /\ \A j \in NewCalls :
          \/ procs'[j].trigger = "open"
          \/ /\ procs'[j].trigger = "timer"
             /\ \E t \in timers \ timers' :
                   t.id = procs'[j].timerId /\ t.file = procs'[j].file
    /\ Len(procs') <= Len(procs) + 1

\* C20: once the events have ceased, and with the host's calls settling,
\* the plugin comes to rest for good: no timer armed, every call returned;
\* a timer leads to at most one call, and nothing arms a timer or starts a
\* call but an event.
C20_Quiescence == <>[]Idle /\ []OneCallPerTimer /\ [][QuietStep]_vars

\* C20 witness: all events have been delivered, the last of them a modify
\* whose timer has fired and whose call has updated P, and the plugin is
\* at rest
C20_Witness ==
    /\ Idle
    /\ Delivered = MaxEvents
    /\ modifyLog # <<>>
    /\ \E i \in 1..Len(procs) :
          /\ procs[i].trigger = "timer"
          /\ procs[i].timerId = Len(modifyLog)
          /\ procs[i].wrote # {}

=============================================================================
